---- MODULE Spec2Model ----
(***************************************************************************)
(* Model of streamlit_app.py: the classical (random, no replacement) and   *)
(* the quantum-inspired (belief-guided) searchers that probe one cell each *)
(* per iteration of the animation loop, on one shared board, through a     *)
(* noisy sensor.                                                           *)
(*                                                                         *)
(* Numbers.  Noise rates and random draws are in hundredths (0.2 is 20).   *)
(* The belief grid `prob` is a grid of rationals kept over one common      *)
(* denominator: cell c holds prob.num[c] / prob.den.  The value 0/0, which *)
(* numpy produces (as NaN) when the grid is divided by a zero sum, is      *)
(* prob.den = 0.  The arithmetic is exact; float64 rounding, which can     *)
(* change which of two nearly equal beliefs np.argmax picks, is not        *)
(* modelled.                                                               *)
(***************************************************************************)
EXTENDS Integers, FiniteSets, Sequences, TLC

\* ---------------------------------------------------------------- bounds
\* Largest grid size explored by Spec (the slider offers 4..8).
MaxSize == 3
\* Largest grid size on which Spec lets the false-positive rate be positive
\* (false positives make every reading a possible hit, and each hit
\* multiplies the common denominator of the belief grid).
MaxFpSize == 2
\* Ships are placed on the cells whose row-major index is at most this.
MaxShipIndex == 4

\* ------------------------------------------------------- program constants
\* prob[i, j] += 0.3
BoostNum == 3
BoostDen == 10
\* Grid size and number of ships the sliders start at.
DefaultSize == 5
DefaultShips == 3

\* Values of the two noise sliders that are explored: 0.0 and the default 0.2.
Rates == {0, 20}
\* Values random.random() may return, in hundredths of [0, 1).
RandVals == {0, 50}

Sizes == 2..MaxSize

VARIABLES
    pc,              \* "idle" | "loop" | "summary" | "done"
    size, num_ships, false_positive, false_negative,
    board,
    c_found, tried_c, guesses_c,
    q_found, prob, guesses_q,
    step,            \* iterations of the for loop completed
    x, y, result_c,  \* the classical guess of the last iteration
    xq, yq, result_q,\* the guided guess of the last iteration
    prob_mid,        \* prob between line 91 and line 92 of the last iteration
    probed_q,        \* history: the cells the guided searcher has probed
    rewrites_q,      \* history: guided guesses that probed a cell again
    c_acc, q_acc

vars == <<pc, size, num_ships, false_positive, false_negative, board,
          c_found, tried_c, guesses_c, q_found, prob, guesses_q, step,
          x, y, result_c, xq, yq, result_q, prob_mid, probed_q, rewrites_q,
          c_acc, q_acc>>

\* ---------------------------------------------------------------- helpers
Max(a, b) == IF a >= b THEN a ELSE b
Min(a, b) == IF a <= b THEN a ELSE b

RECURSIVE GCD(_, _)
GCD(a, b) == IF b = 0 THEN a ELSE GCD(b, a % b)

\* [(i, j) for i in range(size) for j in range(size)]
Cells(sz) == (0..(sz - 1)) \X (0..(sz - 1))

\* np.zeros((size, size))
Zeros(sz) == [c \in Cells(sz) |-> 0]

RECURSIVE SumOver(_, _)
SumOver(f, S) ==
    IF S = {} THEN 0
    ELSE LET c == CHOOSE d \in S : TRUE IN f[c] + SumOver(f, S \ {c})

\* np.sum of a grid
GridSum(f) == SumOver(f, DOMAIN f)

RECURSIVE GcdOver(_, _)
GcdOver(f, S) ==
    IF S = {} THEN 0
    ELSE LET c == CHOOSE d \in S : TRUE IN GCD(f[c], GcdOver(f, S \ {c}))

\* max(1, size*size//4): the upper end of the "Number of Ships" slider
NumShipsMax(sz) == Max(1, (sz * sz) \div 4)

\* Position of a cell in the flattened (row-major) grid.
Flat(c, sz) == c[1] * sz + c[2]

\* The board lines 47-50 build from ship_positions.
BoardOf(S, sz) == [c \in Cells(sz) |-> IF c \in S THEN 1 ELSE 0]

\* The boards random.sample can produce, n distinct cells set to 1, among
\* the cells the bound admits.
Boards(sz, n) ==
    { BoardOf(S, sz) :
        S \in { T \in SUBSET { c \in Cells(sz) : Flat(c, sz) <= MaxShipIndex } :
                    Cardinality(T) = n } }

\* ------------------------------------------------------------ noisy_sensor
\* Variant: the draw compared with <= instead of <.
noisy_sensor_le(b, i, j, fp, fn, r) ==
    LET actual == b[<<i, j>>] IN
    IF actual = 1 /\ r <= fn THEN 0
    ELSE IF actual = 0 /\ r <= fp THEN 1
    ELSE actual

\* r is the value random.random() returns in the one comparison the call
\* evaluates (the `and` short-circuits, so each call draws once).
noisy_sensor(b, i, j, fp, fn, r) ==
    LET actual == b[<<i, j>>] IN
    IF actual = 1 /\ r < fn THEN 0
    ELSE IF actual = 0 /\ r < fp THEN 1
    ELSE actual

\* ------------------------------------------------------- classical search
\* Variant: the draw accepted without looking at tried_c.
ClassicalChoicesNoVisited(tried, sz) == Cells(sz)

\* The coordinates the `while True` rejection loop can leave in (x, y):
\* those not in tried_c.
ClassicalChoices(tried, sz) == Cells(sz) \ tried

\* --------------------------------------------------------- guided search
\* np.ones((size, size)) / (size*size)
UniformProb(sz) == [num |-> [c \in Cells(sz) |-> 1], den |-> sz * sz]

\* np.argmax(prob): the flat index of the first maximum.
ArgMax(p, sz) ==
    LET best == CHOOSE c \in Cells(sz) :
                    \A d \in Cells(sz) :
                        \/ p.num[d] < p.num[c]
                        \/ (p.num[d] = p.num[c] /\ Flat(c, sz) <= Flat(d, sz))
    IN Flat(best, sz)

\* np.unravel_index(idx, prob.shape)
UnravelIndex(idx, sz) == <<idx \div sz, idx % sz>>

\* Variant: the row range stops one short, range(max(0, xq-1), min(size, xq+1)).
BoostCellsShort(i, j, sz) ==
    (Max(0, i - 1)..(Min(sz, i + 1) - 1)) \X (Max(0, j - 1)..(Min(sz, j + 2) - 1))

\* The cells the two nested range() loops of the boost visit.
BoostCells(i, j, sz) ==
    (Max(0, i - 1)..(Min(sz, i + 2) - 1)) \X (Max(0, j - 1)..(Min(sz, j + 2) - 1))

\* if result_q == 1: prob[i, j] += 0.3 over BoostCells
Boost(p, i, j, r, sz) ==
    IF r = 1
    THEN [num |-> [c \in Cells(sz) |->
                     IF c \in BoostCells(i, j, sz)
                     THEN BoostDen * p.num[c] + BoostNum * p.den
                     ELSE BoostDen * p.num[c]],
          den |-> BoostDen * p.den]
    ELSE p

\* prob[xq, yq] = 0
ZeroCell(p, i, j) == [p EXCEPT !.num[<<i, j>>] = 0]

\* Lines 87-91: the belief grid just before it is renormalised.
UpdateBelief(p, i, j, r, sz) == ZeroCell(Boost(p, i, j, r, sz), i, j)

\* prob /= np.sum(prob).  Each cell becomes (num/den) / (sum/den) = num/sum,
\* kept in lowest terms; a zero sum makes every cell 0/0.
Normalize(p) ==
    LET s == GridSum(p.num)
        g == GcdOver(p.num, DOMAIN p.num)
    IN IF s = 0
       THEN [num |-> p.num, den |-> 0]
       ELSE [num |-> [c \in DOMAIN p.num |-> p.num[c] \div g], den |-> s \div g]

\* Variant: lines 91 and 92 swapped, the probed cell zeroed after the division.
GuidedUpdateZeroLast(p, i, j, r, sz) == ZeroCell(Normalize(Boost(p, i, j, r, sz)), i, j)

\* Lines 87-92: the belief grid at the end of the iteration.
GuidedUpdate(p, i, j, r, sz) == Normalize(UpdateBelief(p, i, j, r, sz))

\* ------------------------------------------------------ loop and summary
\* Variant: one iteration too many.
TotalStepsOneMore(sz) == sz * sz + 1

\* total_steps = size * size
TotalSteps(sz) == sz * sz

\* np.sum(found * board)
TrueHits(found, b) == GridSum([c \in DOMAIN b |-> found[c] * b[c]])

\* Variant: `or` in place of `and`.
StopConditionEither(cf, qf, b, n) == TrueHits(cf, b) >= n \/ TrueHits(qf, b) >= n

\* np.sum(c_found * board) >= num_ships and np.sum(q_found * board) >= num_ships
StopCondition(cf, qf, b, n) == TrueHits(cf, b) >= n /\ TrueHits(qf, b) >= n

\* Variant: every recorded detection counted, on a target cell or not.
AccuracyAllDetections(found, b, n) ==
    [num |-> Cardinality({c \in DOMAIN b : found[c] = 1}), den |-> n]

\* np.sum((found == 1) & (board == 1)) / num_ships, as a fraction
Accuracy(found, b, n) ==
    [num |-> Cardinality({c \in DOMAIN b : found[c] = 1 /\ b[c] = 1}), den |-> n]

NoAcc == [num |-> 0, den |-> 0]

\* ------------------------------------------------------------------ state
\* The page before the button is pressed: the sliders hold a configuration.
InitWith(sz, n, fp, fn) ==
    /\ pc = "idle"
    /\ size = sz
    /\ num_ships = n
    /\ false_positive = fp
    /\ false_negative = fn
    /\ board = Zeros(sz)
    /\ c_found = Zeros(sz)
    /\ tried_c = {}
    /\ guesses_c = 0
    /\ q_found = Zeros(sz)
    /\ prob = UniformProb(sz)
    /\ guesses_q = 0
    /\ step = 0
    /\ x = 0 /\ y = 0 /\ result_c = 0
    /\ xq = 0 /\ yq = 0 /\ result_q = 0
    /\ prob_mid = UniformProb(sz)
    /\ probed_q = {}
    /\ rewrites_q = 0
    /\ c_acc = NoAcc
    /\ q_acc = NoAcc

Init ==
    \E sz \in Sizes, fp \in Rates, fn \in Rates :
        /\ fp = 0 \/ sz <= MaxFpSize
        /\ \E n \in 1..NumShipsMax(sz) : InitWith(sz, n, fp, fn)

\* if start_button: lines 47-67, the board drawn from the set bs.
StartWith(bs) ==
    /\ pc = "idle"
    /\ board' \in bs
    /\ c_found' = Zeros(size)
    /\ tried_c' = {}
    /\ guesses_c' = 0
    /\ q_found' = Zeros(size)
    /\ prob' = UniformProb(size)
    /\ guesses_q' = 0
    /\ pc' = "loop"
    /\ UNCHANGED <<size, num_ships, false_positive, false_negative, step,
                   x, y, result_c, xq, yq, result_q, prob_mid, probed_q,
                   rewrites_q, c_acc, q_acc>>

Start == StartWith(Boards(size, num_ships))

\* One iteration of `for step in range(total_steps)`, lines 72-102; the
\* classical coordinate is drawn from cands.
Iterate(cands) ==
    /\ pc = "loop"
    /\ \E rq \in RandVals :
       \E cq \in {UnravelIndex(ArgMax(prob, size), size)} :
       \E res_q \in {noisy_sensor(board, cq[1], cq[2], false_positive, false_negative, rq)} :
       \E mid \in {UpdateBelief(prob, cq[1], cq[2], res_q, size)} :
       \E new \in {GuidedUpdate(prob, cq[1], cq[2], res_q, size)} :
       \E qf \in {[q_found EXCEPT ![cq] = res_q]} :
       \E c \in cands, rc \in RandVals :
       \E res_c \in {noisy_sensor(board, c[1], c[2], false_positive, false_negative, rc)} :
       \E cf \in {[c_found EXCEPT ![c] = res_c]} :
            /\ x' = c[1] /\ y' = c[2]
            /\ tried_c' = tried_c \cup {c}
            /\ result_c' = res_c
            /\ c_found' = cf
            /\ guesses_c' = guesses_c + 1
            /\ xq' = cq[1] /\ yq' = cq[2]
            /\ result_q' = res_q
            /\ q_found' = qf
            /\ guesses_q' = guesses_q + 1
            /\ prob_mid' = mid
            /\ prob' = new
            /\ probed_q' = probed_q \cup {cq}
            /\ rewrites_q' = IF cq \in probed_q THEN rewrites_q + 1 ELSE rewrites_q
            /\ step' = step + 1
            /\ pc' = IF StopCondition(cf, qf, board, num_ships)
                        \/ step + 1 >= TotalSteps(size)
                     THEN "summary" ELSE "loop"
    /\ UNCHANGED <<size, num_ships, false_positive, false_negative, board,
                   c_acc, q_acc>>

Step == Iterate(ClassicalChoices(tried_c, size))

\* Lines 107-108: the final comparison.
Report ==
    /\ pc = "summary"
    /\ c_acc' = Accuracy(c_found, board, num_ships)
    /\ q_acc' = Accuracy(q_found, board, num_ships)
    /\ pc' = "done"
    /\ UNCHANGED <<size, num_ships, false_positive, false_negative, board,
                   c_found, tried_c, guesses_c, q_found, prob, guesses_q, step,
                   x, y, result_c, xq, yq, result_q, prob_mid, probed_q,
                   rewrites_q>>

Next == Start \/ Step \/ Report

Spec == Init /\ [][Next]_vars

\* ------------------------------------------------- the 5x5 scenario runs
\* Default sliders with the noise sliders at 0, and the three ships on the
\* diagonal cells (0,0), (2,2), (4,4).
ScenarioShips == {<<0, 0>>, <<2, 2>>, <<4, 4>>}

InitScenario == InitWith(DefaultSize, DefaultShips, 0, 0)

StartScenario == StartWith({BoardOf(ScenarioShips, size)})

\* Two of the coordinates the rejection loop can return: the first and the
\* last untried cell in row-major order.
ScenarioChoices(tried, sz) ==
    { c \in ClassicalChoices(tried, sz) :
        \/ \A d \in ClassicalChoices(tried, sz) : Flat(c, sz) <= Flat(d, sz)
        \/ \A d \in ClassicalChoices(tried, sz) : Flat(c, sz) >= Flat(d, sz) }

StepScenario == Iterate(ScenarioChoices(tried_c, size))

NextScenario == StartScenario \/ StepScenario \/ Report

SpecScenario == InitScenario /\ [][NextScenario]_vars

\* ---------------------------------------------------------------- claims
Abs(n) == IF n < 0 THEN -n ELSE n

\* a/b = c/d for b, d > 0 and a, c >= 0, compared in lowest terms.
RatEq(a, b, c, d) ==
    /\ a \div GCD(a, b) = c \div GCD(c, d)
    /\ b \div GCD(a, b) = d \div GCD(c, d)

Running == pc \in {"loop", "summary", "done"}

\* The target cells of the board.
Targets == {c \in Cells(size) : board[c] = 1}

\* The number of target cells a detection record shows as a hit.
TargetHits(found) == Cardinality({c \in Targets : found[c] = 1})

\* A sensor reading r at cell c differs from the occupancy only as the
\* noise rates allow.
ReadingAllowed(r, c) ==
    /\ r \in {0, 1}
    /\ (board[c] = 1 /\ r = 0) => false_negative > 0
    /\ (board[c] = 0 /\ r = 1) => false_positive > 0

\* C1: the run terminates and neither searcher makes more than size*size
\* guesses: the loop runs at most size*size iterations, each one guess per
\* searcher, whenever an iteration starts some cell has not been probed by
\* the classical searcher (so the rejection loop has a cell to return), and
\* the loop is left after at least one and at most size*size iterations.
C1_Terminates ==
    /\ step <= size * size
    /\ guesses_c = step
    /\ guesses_q = step
    /\ pc = "loop" => (step < size * size /\ Cells(size) \ tried_c # {})
    /\ pc \in {"summary", "done"} => (1 <= step /\ tried_c # {})

C1_Witness ==
    /\ pc = "done"
    /\ size = 3
    /\ guesses_c = size * size
    /\ guesses_q = size * size
    /\ tried_c = Cells(size)

\* C2: once the guided searcher has probed a cell, the cell's belief is
\* exactly 0 at the end of that and of every later iteration, and the cell
\* is never selected again.
C2_ProbedBeliefStaysZero ==
    Running =>
        /\ \A c \in probed_q : prob.den # 0 /\ prob.num[c] = 0
        /\ rewrites_q = 0

\* C3: on the 5x5 board with targets at (0,0), (2,2), (4,4) and no noise,
\* the guided searcher has a recorded hit on all three targets after at
\* most 25 guesses.
C3_GuidedFindsAllThree ==
    pc = "done" =>
        /\ guesses_q <= 25
        /\ \A c \in ScenarioShips : q_found[c] = 1

\* C4: at the end of every iteration the belief grid is non-negative and
\* sums to 1 unless every cell has been probed; the sum divided by is zero
\* only when all cells have been probed, which is in the last iteration.
C4_BeliefSumsToOne ==
    Running =>
        /\ \A c \in Cells(size) : prob.num[c] >= 0 /\ prob_mid.num[c] >= 0
        /\ prob_mid.den > 0
        /\ probed_q # Cells(size) => (prob.den > 0 /\ GridSum(prob.num) = prob.den)
        /\ prob.den # 0 => GridSum(prob.num) = prob.den
        /\ (step > 0 /\ GridSum(prob_mid.num) = 0) =>
                (prob.den = 0 /\ probed_q = Cells(size) /\ step = size * size)

C4_Witness ==
    /\ pc = "loop"
    /\ step >= 2
    /\ result_q = 1
    /\ probed_q # Cells(size)
    /\ GridSum(prob.num) = prob.den
    /\ \E c \in Cells(size), d \in Cells(size) : 0 < prob.num[c] /\ prob.num[c] < prob.num[d]

C6_NoClassicalRepeat ==
    /\ [](/\ Cardinality(tried_c) = guesses_c
          /\ \A c \in Cells(size) \ tried_c : c_found[c] = 0)
    /\ [][pc = "loop" =>
            /\ <<x', y'>> \notin tried_c
            /\ tried_c' = tried_c \cup {<<x', y'>>}
            /\ \A c \in Cells(size) \ {<<x', y'>>} : c_found'[c] = c_found[c]]_vars

C6_Witness ==
    /\ guesses_c >= 3
    /\ Cardinality(tried_c) = 3
    /\ \E c \in tried_c : c_found[c] = 1
    /\ \E c \in tried_c : c_found[c] = 0

\* C7: each reported accuracy is in [0, 1], and is 1 when both noise rates
\* are 0 and the searcher has probed every target cell.
C7_AccuracyRange ==
    pc = "done" =>
        /\ c_acc.den = num_ships /\ q_acc.den = num_ships /\ num_ships > 0
        /\ 0 <= c_acc.num /\ c_acc.num <= c_acc.den
        /\ 0 <= q_acc.num /\ q_acc.num <= q_acc.den
        /\ (false_positive = 0 /\ false_negative = 0 /\ Targets \subseteq tried_c)
                => c_acc.num = c_acc.den
        /\ (false_positive = 0 /\ false_negative = 0 /\ Targets \subseteq probed_q)
                => q_acc.num = q_acc.den

C7_Witness ==
    /\ pc = "done"
    /\ false_positive = 0 /\ false_negative = 0
    /\ num_ships = 2
    /\ Targets \subseteq probed_q
    /\ Targets \subseteq tried_c
    /\ q_acc.num = 2 /\ c_acc.num = 2

\* C8: every sensor reading is 0 or 1, differs from the cell's occupancy
\* only when the matching noise rate is positive (so not at all when both
\* are 0), and sensing leaves the board as it was.
C8_SensorReadings ==
    /\ []((Running /\ step > 0) =>
            /\ ReadingAllowed(result_c, <<x, y>>)
            /\ ReadingAllowed(result_q, <<xq, yq>>)
            /\ (false_positive = 0 /\ false_negative = 0) =>
                    (result_c = board[<<x, y>>] /\ result_q = board[<<xq, yq>>]))
    /\ [][pc = "loop" => board' = board]_vars

C8_Witness ==
    /\ Running /\ step > 0
    /\ false_positive = 0 /\ false_negative = 0
    /\ result_q = 1 /\ board[<<xq, yq>>] = 1
    /\ result_c = 0 /\ board[<<x, y>>] = 0

\* C9: before renormalisation, a hit adds 0.3 to exactly the cells within
\* one row and one column of the probed cell and then zeroes the probed
\* cell; a miss changes the probed cell only.
C9_BoostFrame ==
    [][pc = "loop" =>
        /\ prob_mid'.den > 0
        /\ \A c \in Cells(size) :
            IF c = <<xq', yq'>>
            THEN prob_mid'.num[c] = 0
            ELSE IF result_q' = 1 /\ Abs(c[1] - xq') <= 1 /\ Abs(c[2] - yq') <= 1
            THEN RatEq(prob_mid'.num[c], prob_mid'.den,
                       10 * prob.num[c] + 3 * prob.den, 10 * prob.den)
            ELSE RatEq(prob_mid'.num[c], prob_mid'.den, prob.num[c], prob.den)]_vars

\* A hit whose neighbourhood leaves cells of the grid outside.
C9_Witness ==
    /\ Running /\ step > 0
    /\ result_q = 1
    /\ prob_mid.num[<<xq, yq>>] = 0
    /\ \E c \in Cells(size) : Abs(c[1] - xq) > 1 /\ prob_mid.num[c] > 0
    /\ \E c \in Cells(size) : Abs(c[1] - xq) <= 1 /\ Abs(c[2] - yq) <= 1
                              /\ prob_mid.num[c] > 0

\* C10: for each searcher the number of target cells recorded as a hit
\* never decreases from one iteration to the next.
C10_HitsNeverDecrease ==
    [][pc = "loop" =>
        /\ TargetHits(c_found') >= TargetHits(c_found)
        /\ TargetHits(q_found') >= TargetHits(q_found)]_vars
====
